---- MODULE Spec2Model ----
\* Single-end UMI deduplication of minute (src/minute/se_dedup.py):
\* AlignedSegmentSummary, AlignmentIndex, DedupSummary, FirstMateDeduplicator.
EXTENDS Integers, Sequences, FiniteSets, TLC

VARIABLES
    pc,                         \* position of the run
    bam,                        \* the alignment records of the BAM file, in file order
    r1_reads_by_position,       \* AlignmentIndex.r1_reads_by_position
    r2_only_reads_by_position,  \* AlignmentIndex.r2_only_reads_by_position
    multimappers,               \* AlignmentIndex.multimappers
    seen_1st,                   \* set returned by _index_first_mates
    seen_2nd,                   \* set returned by _index_second_mates
    total,                      \* AlignmentIndex.total
    r1_dups,                    \* deduplicate: r1_dups
    r2_dups,                    \* deduplicate: r2_dups
    summary,                    \* the DedupSummary returned by deduplicate
    outcome,                    \* how fraction_duplication() ended
    read_list,                  \* argument of mark_duplicates_by_umi
    seq_list,                   \* argument of cluster_sequences
    mismatches,                 \* mismatch threshold argument
    clusters,                   \* clusters returned by cluster_sequences
    unique_reads,               \* mark_duplicates_by_umi: unique_reads
    dup_ids                     \* list returned by mark_duplicates_by_umi

vars == <<pc, bam, r1_reads_by_position, r2_only_reads_by_position, multimappers,
          seen_1st, seen_2nd, total, r1_dups, r2_dups, summary, outcome,
          read_list, seq_list, mismatches, clusters, unique_reads, dup_ids>>

indexVars == <<bam, r1_reads_by_position, r2_only_reads_by_position, multimappers,
               seen_1st, seen_2nd, total, r1_dups, r2_dups, summary, outcome>>

bucketVars == <<read_list, seq_list, mismatches, clusters, unique_reads, dup_ids>>

----------------------------------------------------------------------------
\* Bounds of the model.

\* longest BAM stream
MaxReads == 2
\* largest position bucket handed to mark_duplicates_by_umi on its own
MaxBucket == 3
\* longest UMI list handed to cluster_sequences on its own
MaxSeqs == 5
\* largest mismatch threshold tried
MaxMismatches == 1

\* Defaults of FirstMateDeduplicator.__init__.
umi_length == 6
multimap_cutoff == 5
umi_mismatches == 1

----------------------------------------------------------------------------
\* Generic helpers.

Range(s) == {s[i] : i \in 1..Len(s)}

Max(a, b) == IF a >= b THEN a ELSE b

\* contiguous containment, the meaning of `x in y` for two bytes objects
BytesIn(x, y) ==
    \E k \in 0..(Len(y) - Len(x)) : \A i \in 1..Len(x) : y[k + i] = x[i]

\* code points of the characters that occur in query names
Ord == [c \in {"A", "T", "_", "f", "g"} |->
          CASE c = "A" -> 65 [] c = "T" -> 84 [] c = "_" -> 95
            [] c = "f" -> 102 [] c = "g" -> 103]

\* str.encode on ASCII text
Encode(s) == [i \in 1..Len(s) |-> Ord[s[i]]]

----------------------------------------------------------------------------
\* The inputs: alignment records as pysam hands them over.

NameF == <<"f", "_", "A", "A", "A", "A", "A", "A">>
NameG == <<"g", "_", "A", "A", "A", "A", "A", "T">>
\* a query name that is nothing but a UMI: no fragment name, no separator
NameShort == <<"A", "A", "A", "A", "A", "T">>

QueryNames == {NameF, NameG, NameShort}

Qualities(q) == IF q = NameG THEN <<20, 25>> ELSE <<30>>

Records ==
    {r \in [query_name : QueryNames,
            is_read1 : BOOLEAN, is_read2 : BOOLEAN, is_unmapped : BOOLEAN,
            mapping_quality : {0, 30},
            reference_name : {"chr1", "chr2"},
            reference_start : {100, 200},
            query_alignment_qualities : {<<30>>, <<20, 25>>}] :
        /\ ~(r.is_read1 /\ r.is_read2)
        /\ r.query_alignment_qualities = Qualities(r.query_name)
        /\ r.reference_name = "chr2" => r.reference_start = 100
        /\ r.query_name = NameShort =>
             r.reference_name = "chr1" /\ r.reference_start = 100
        /\ r.is_unmapped =>
             r.mapping_quality = 0 /\ r.reference_name = "chr1" /\ r.reference_start = 100}

Streams == UNION {[1..n -> Records] : n \in 0..MaxReads}

----------------------------------------------------------------------------
\* get_mapped_segments

IsMapped(read) == ~read.is_unmapped

get_mapped_segments_all(b) == b

get_mapped_segments(b) == SelectSeq(b, IsMapped)

----------------------------------------------------------------------------
\* AlignedSegmentSummary

get_type(read, cutoff) ==
    IF read.mapping_quality < cutoff THEN "MULTI" ELSE "SINGLE"

\* query_name[:-umi_length - 1]: a stop before the start of the string is the start
get_name(read, ulen) ==
    SubSeq(read.query_name, 1, Max(Len(read.query_name) - ulen - 1, 0))

\* str.encode(query_name[-umi_length:]): a start before the start of the string is
\* the start, and -0 is 0
get_umi(read, ulen) ==
    LET q == read.query_name
        from == IF ulen = 0 THEN 0 ELSE Max(Len(q) - ulen, 0)
    IN  Encode(SubSeq(q, from + 1, Len(q)))

get_mate_unpaired_as_first(read) ==
    IF read.is_read1 THEN 1 ELSE IF read.is_read2 THEN 2 ELSE 1

get_mate(read) ==
    IF read.is_read1 THEN 1 ELSE IF read.is_read2 THEN 2 ELSE -1

RECURSIVE SumSeq(_)
SumSeq(s) == IF s = <<>> THEN 0 ELSE Head(s) + SumSeq(Tail(s))

get_score(read) == SumSeq(read.query_alignment_qualities)

AlignedSegmentSummary(read, ulen, cutoff) ==
    [name |-> get_name(read, ulen),
     umi |-> get_umi(read, ulen),
     mate |-> get_mate(read),
     reference |-> read.reference_name,
     start |-> read.reference_start,
     mapping_quality |-> read.mapping_quality,
     score |-> get_score(read),
     type |-> get_type(read, cutoff)]

----------------------------------------------------------------------------
\* count_sequences: the dict of counts, as its items in insertion order

KeyIndex(counts, s) ==
    IF \E i \in 1..Len(counts) : counts[i].seq = s
    THEN CHOOSE i \in 1..Len(counts) : counts[i].seq = s
    ELSE 0

RECURSIVE CountInto(_, _)
CountInto(counts, seqs) ==
    IF seqs = <<>> THEN counts
    ELSE LET s == Head(seqs)
             k == KeyIndex(counts, s)
             next == IF k = 0
                     THEN Append(counts, [seq |-> s, n |-> 1])
                     ELSE [counts EXCEPT ![k].n = @ + 1]
         IN  CountInto(next, Tail(seqs))

count_sequences_drop_last(seqs) ==
    IF seqs = <<>> THEN <<>> ELSE CountInto(<<>>, SubSeq(seqs, 1, Len(seqs) - 1))

count_sequences(seqs) == CountInto(<<>>, seqs)

----------------------------------------------------------------------------
\* umi_tools.UMIClusterer(cluster_method="directional"), called as
\* clusterer(counts, threshold=mismatches)

Keys(counts) == {counts[i].seq : i \in 1..Len(counts)}

CountOf(counts, u) == counts[KeyIndex(counts, u)].n

Hamming(a, b) == Cardinality({i \in 1..Len(a) : a[i] # b[i]})

\* adjacency list of the directional method
Adjacent(counts, threshold, a) ==
    {b \in Keys(counts) \ {a} :
        /\ Hamming(a, b) <= threshold
        /\ CountOf(counts, a) >= 2 * CountOf(counts, b) - 1}

\* breadth-first search from a node: everything reachable along the edges
RECURSIVE Reachable(_, _, _)
Reachable(counts, threshold, found) ==
    LET more == found \cup UNION {Adjacent(counts, threshold, x) : x \in found}
    IN  IF more = found THEN found ELSE Reachable(counts, threshold, more)

\* indices of the keys sorted by count, highest first; the sort is stable
Precedes(counts, i, j) ==
    \/ counts[i].n > counts[j].n
    \/ counts[i].n = counts[j].n /\ i < j

ByCount(counts) ==
    [p \in 1..Len(counts) |->
        CHOOSE i \in 1..Len(counts) :
            Cardinality({j \in 1..Len(counts) : Precedes(counts, j, i)}) = p - 1]

\* connected components, started from each node not found yet, in sorted order
RECURSIVE Components(_, _, _, _, _)
Components(counts, threshold, order, found, acc) ==
    IF order = <<>> THEN acc
    ELSE LET node == counts[Head(order)].seq
         IN  IF node \in found
             THEN Components(counts, threshold, Tail(order), found, acc)
             ELSE LET comp == Reachable(counts, threshold, {node})
                  IN  Components(counts, threshold, Tail(order),
                                 found \cup comp, Append(acc, comp))

\* a set of UMIs as a list sorted by count, highest first; the set's iteration
\* order decides between equal counts, and `tie` stands for that order
SortedGroup(counts, tie, members) ==
    LET Before(a, b) ==
            \/ CountOf(counts, a) > CountOf(counts, b)
            \/ /\ CountOf(counts, a) = CountOf(counts, b)
               /\ tie[KeyIndex(counts, a)] < tie[KeyIndex(counts, b)]
    IN  [p \in 1..Cardinality(members) |->
            CHOOSE a \in members :
                Cardinality({b \in members : Before(b, a)}) = p - 1]

\* each component, less the nodes an earlier group holds
RECURSIVE Groups(_, _, _, _, _)
Groups(counts, tie, comps, observed, acc) ==
    IF comps = <<>> THEN acc
    ELSE LET fresh == Head(comps) \ observed
         IN  Groups(counts, tie, Tail(comps), observed \cup fresh,
                    Append(acc, SortedGroup(counts, tie, fresh)))

TieOrders(n) == {f \in [1..n -> 1..n] : \A i, j \in 1..n : f[i] = f[j] => i = j}

\* every list of clusters the clusterer can return for these counts
UMIClusterer(counts, threshold) ==
    LET comps == Components(counts, threshold, ByCount(counts), {}, <<>>)
    IN  {Groups(counts, tie, comps, {}, <<>>) : tie \in TieOrders(Len(counts))}

----------------------------------------------------------------------------
\* FirstMateDeduplicator

cluster_sequences_exact_only(seqs, threshold) ==
    IF Len(seqs) > 0 THEN UMIClusterer(count_sequences(seqs), 0) ELSE {<<>>}

\* every list of clusters cluster_sequences can return
cluster_sequences(seqs, threshold) ==
    IF Len(seqs) > 0 THEN UMIClusterer(count_sequences(seqs), threshold) ELSE {<<>>}

\* called with allowed = c[0], a bytes object: `in` is containment in it
filter_by_attribute(reads, allowed) ==
    LET Keep(r) == BytesIn(r.umi, allowed) IN SelectSeq(reads, Keep)

RECURSIVE PickLastFrom(_, _)
PickLastFrom(best, rest) ==
    IF rest = <<>> THEN best
    ELSE PickLastFrom(IF Head(rest).score >= best.score THEN Head(rest) ELSE best,
                      Tail(rest))

pick_best_last_maximum(readlist) == PickLastFrom(Head(readlist), Tail(readlist))

RECURSIVE PickFrom(_, _)
PickFrom(best, rest) ==
    IF rest = <<>> THEN best
    ELSE PickFrom(IF Head(rest).score > best.score THEN Head(rest) ELSE best, Tail(rest))

pick_best(readlist) == PickFrom(Head(readlist), Tail(readlist))

\* unique_reads of mark_duplicates_by_umi for one list of clusters
UniqueReads(reads, cl) ==
    [k \in 1..Len(cl) |->
        LET unique_candidates == filter_by_attribute(reads, cl[k][1])
        IN  IF Len(unique_candidates) > 1
            THEN pick_best(unique_candidates)
            ELSE unique_candidates[1]]

DuplicateNames_by_read(reads, uniq) ==
    LET IsDup(r) == r \notin Range(uniq)
        dups == SelectSeq(reads, IsDup)
    IN  [i \in 1..Len(dups) |-> dups[i].name]

\* the names of the reads whose name is no unique read's name
DuplicateNames(reads, uniq) ==
    LET unique_reads_set == {uniq[k].name : k \in 1..Len(uniq)}
        IsDup(r) == r.name \notin unique_reads_set
        dups == SelectSeq(reads, IsDup)
    IN  [i \in 1..Len(dups) |-> dups[i].name]

Umis(reads) == [i \in 1..Len(reads) |-> reads[i].umi]

\* every list mark_duplicates_by_umi can return
mark_duplicates_by_umi(reads, umi_mm) ==
    {DuplicateNames(reads, UniqueReads(reads, cl)) :
        cl \in cluster_sequences(Umis(reads), umi_mm)}

\* the (reference, position) keys of an index
IndexKeys(aln_index) ==
    UNION {{<<ref, i>> : i \in DOMAIN aln_index[ref]} : ref \in DOMAIN aln_index}

RECURSIVE DuplicatesOver(_, _)
DuplicatesOver(aln_index, keys) ==
    IF keys = {} THEN {<<>>}
    ELSE LET k == CHOOSE k \in keys : TRUE
             dup_candidates == aln_index[k[1]][k[2]]
             dup_ids_here == IF Len(dup_candidates) > 1
                             THEN mark_duplicates_by_umi(dup_candidates, umi_mismatches)
                             ELSE {<<>>}
         IN  {d \o rest : d \in dup_ids_here,
                          rest \in DuplicatesOver(aln_index, keys \ {k})}

\* every list _find_duplicate_ids can return
find_duplicate_ids(aln_index) == DuplicatesOver(aln_index, IndexKeys(aln_index))

----------------------------------------------------------------------------
\* AlignmentIndex

NoReads == [x \in {} |-> <<>>]

\* index[refname][pos].append(aln) on a defaultdict of defaultdicts of lists
IndexAppend(index, refname, pos, aln) ==
    LET by_pos == IF refname \in DOMAIN index THEN index[refname] ELSE NoReads
        bucket == IF pos \in DOMAIN by_pos THEN by_pos[pos] ELSE <<>>
        by_pos2 == [p \in DOMAIN by_pos \cup {pos} |->
                      IF p = pos THEN Append(bucket, aln) ELSE by_pos[p]]
    IN  [r \in DOMAIN index \cup {refname} |->
            IF r = refname THEN by_pos2 ELSE index[r]]

\* the loop of _index_first_mates; st holds the index, the pool and the seen list
RECURSIVE FirstMatesLoop(_, _)
FirstMatesLoop(reads, st) ==
    IF reads = <<>> THEN st
    ELSE LET read == Head(reads)
             aln == AlignedSegmentSummary(read, umi_length, multimap_cutoff)
             st2 == IF aln.mate = 1
                    THEN IF aln.type = "SINGLE"
                         THEN [st EXCEPT
                                 !.by_position = IndexAppend(@, read.reference_name,
                                                             read.reference_start, aln),
                                 !.seen = Append(@, aln.name)]
                         ELSE [st EXCEPT
                                 !.multimappers = Append(@, aln),
                                 !.seen = Append(@, aln.name)]
                    ELSE st
         IN  FirstMatesLoop(Tail(reads), st2)

index_first_mates_seen_multi_only(b, multi) ==
    LET st == FirstMatesLoop(get_mapped_segments(b),
                             [by_position |-> NoReads, multimappers |-> multi,
                              seen |-> <<>>])
    IN  [st EXCEPT !.seen = [i \in 1..Len(st.multimappers) |-> st.multimappers[i].name]]

index_first_mates(b, multi) ==
    FirstMatesLoop(get_mapped_segments(b),
                   [by_position |-> NoReads, multimappers |-> multi, seen |-> <<>>])

\* the loop of _index_second_mates
RECURSIVE SecondMatesLoop(_, _, _)
SecondMatesLoop(reads, seen, st) ==
    IF reads = <<>> THEN st
    ELSE LET read == Head(reads)
             aln == AlignedSegmentSummary(read, umi_length, multimap_cutoff)
             st2 == IF aln.mate = 2 /\ aln.name \notin seen
                    THEN IF aln.type = "SINGLE"
                         THEN [st EXCEPT
                                 !.by_position = IndexAppend(@, read.reference_name,
                                                             read.reference_start, aln),
                                 !.seen = Append(@, aln.name)]
                         ELSE [st EXCEPT
                                 !.multimappers = Append(@, aln),
                                 !.seen = Append(@, aln.name)]
                    ELSE st
         IN  SecondMatesLoop(Tail(reads), seen, st2)

index_second_mates_unfiltered(b, seen, multi) ==
    SecondMatesLoop(get_mapped_segments(b), {},
                    [by_position |-> NoReads, multimappers |-> multi, seen |-> <<>>])

index_second_mates(b, seen, multi) ==
    SecondMatesLoop(get_mapped_segments(b), seen,
                    [by_position |-> NoReads, multimappers |-> multi, seen |-> <<>>])

index_total_r1_only(s1, s2) == Cardinality(s1)

\* r1_counts + r2_counts at the end of AlignmentIndex.__init__
index_total(s1, s2) == Cardinality(s1) + Cardinality(s2)

----------------------------------------------------------------------------
\* DedupSummary

NoSummary == [total |-> -1, total_dups |-> -1, r1_dups |-> -1,
              r2_only_dups |-> -1, multi_dups |-> -1]

\* total_dups / total: Python raises ZeroDivisionError on a zero divisor; a
\* quotient is kept as its numerator and denominator
fraction_duplication(s) ==
    IF s.total = 0
    THEN [kind |-> "raised", exception |-> "ZeroDivisionError"]
    ELSE [kind |-> "returned", num |-> s.total_dups, den |-> s.total]

NotCalled == [kind |-> "not called"]

----------------------------------------------------------------------------
\* The run of FirstMateDeduplicator().deduplicate(bam), then
\* fraction_duplication() on its result.

Init ==
    /\ pc = "start"
    /\ bam \in Streams
    /\ r1_reads_by_position = NoReads
    /\ r2_only_reads_by_position = NoReads
    /\ multimappers = <<>>
    /\ seen_1st = {}
    /\ seen_2nd = {}
    /\ total = 0
    /\ r1_dups = <<>>
    /\ r2_dups = <<>>
    /\ summary = NoSummary
    /\ outcome = NotCalled
    /\ read_list = <<>>
    /\ seq_list = <<>>
    /\ mismatches = 0
    /\ clusters = <<>>
    /\ unique_reads = <<>>
    /\ dup_ids = <<>>

\* AlignmentIndex.__init__: seen_1st = self._index_first_mates(bam)
IndexFirstMates ==
    /\ pc = "start"
    /\ LET st == index_first_mates(bam, multimappers)
       IN  /\ r1_reads_by_position' = st.by_position
           /\ multimappers' = st.multimappers
           /\ seen_1st' = Range(st.seen)
    /\ pc' = "first_mates"
    /\ UNCHANGED <<bam, r2_only_reads_by_position, seen_2nd, total, r1_dups, r2_dups,
                   summary, outcome>>
    /\ UNCHANGED bucketVars

\* AlignmentIndex.__init__: seen_2nd = self._index_second_mates(bam, seen_1st),
\* then the counts
IndexSecondMates ==
    /\ pc = "first_mates"
    /\ LET st == index_second_mates(bam, seen_1st, multimappers)
       IN  /\ r2_only_reads_by_position' = st.by_position
           /\ multimappers' = st.multimappers
           /\ seen_2nd' = Range(st.seen)
           /\ total' = index_total(seen_1st, Range(st.seen))
    /\ pc' = "indexed"
    /\ UNCHANGED <<bam, r1_reads_by_position, seen_1st, r1_dups, r2_dups,
                   summary, outcome>>
    /\ UNCHANGED bucketVars

\* deduplicate: r1_dups = self._find_duplicate_ids(index.r1_reads_by_position)
FindR1Duplicates ==
    /\ pc = "indexed"
    /\ \E d \in find_duplicate_ids(r1_reads_by_position) : r1_dups' = d
    /\ pc' = "r1_deduplicated"
    /\ UNCHANGED <<bam, r1_reads_by_position, r2_only_reads_by_position, multimappers,
                   seen_1st, seen_2nd, total, r2_dups, summary, outcome>>
    /\ UNCHANGED bucketVars

\* deduplicate: r2_dups = self._find_duplicate_ids(index.r2_only_reads_by_position)
FindR2Duplicates ==
    /\ pc = "r1_deduplicated"
    /\ \E d \in find_duplicate_ids(r2_only_reads_by_position) : r2_dups' = d
    /\ pc' = "r2_deduplicated"
    /\ UNCHANGED <<bam, r1_reads_by_position, r2_only_reads_by_position, multimappers,
                   seen_1st, seen_2nd, total, r1_dups, summary, outcome>>
    /\ UNCHANGED bucketVars

\* deduplicate: all_dups and the DedupSummary it returns
ReturnSummary ==
    /\ pc = "r2_deduplicated"
    /\ LET all_dups == Range(r1_dups \o r2_dups)
       IN  summary' = [total |-> total,
                       total_dups |-> Cardinality(all_dups),
                       r1_dups |-> Len(r1_dups),
                       r2_only_dups |-> Len(r2_dups),
                       multi_dups |-> 0]
    /\ pc' = "summarized"
    /\ UNCHANGED <<bam, r1_reads_by_position, r2_only_reads_by_position, multimappers,
                   seen_1st, seen_2nd, total, r1_dups, r2_dups, outcome>>
    /\ UNCHANGED bucketVars

\* DedupSummary.fraction_duplication()
FractionDuplication ==
    /\ pc = "summarized"
    /\ outcome' = fraction_duplication(summary)
    /\ pc' = "done"
    /\ UNCHANGED <<bam, r1_reads_by_position, r2_only_reads_by_position, multimappers,
                   seen_1st, seen_2nd, total, r1_dups, r2_dups, summary>>
    /\ UNCHANGED bucketVars

Next ==
    \/ IndexFirstMates
    \/ IndexSecondMates
    \/ FindR1Duplicates
    \/ FindR2Duplicates
    \/ ReturnSummary
    \/ FractionDuplication

Spec == Init /\ [][Next]_vars

----------------------------------------------------------------------------
\* Vocabulary of the properties, stated on the records of the stream.

MappedRecords == {bam[i] : i \in {j \in 1..Len(bam) : ~bam[j].is_unmapped}}

IsFirst(r) == r.is_read1
IsSecond(r) == ~r.is_read1 /\ r.is_read2
IsUnpaired(r) == ~r.is_read1 /\ ~r.is_read2
IsUnique(r) == r.mapping_quality >= multimap_cutoff
FragName(r) == get_name(r, umi_length)
Malformed(r) == umi_length > Len(r.query_name) - 1

MappedFirst == {r \in MappedRecords : IsFirst(r)}
MappedSecond == {r \in MappedRecords : IsSecond(r)}
FirstNames == {FragName(r) : r \in MappedFirst}
SecondNames == {FragName(r) : r \in MappedSecond}

\* the summaries held by a position index, and their number
Entries(index) ==
    UNION {{<<k[1], k[2], n>> : n \in 1..Len(index[k[1]][k[2]])} : k \in IndexKeys(index)}
Alns(index) == {index[e[1]][e[2]][e[3]] : e \in Entries(index)}
NamesIn(index) == {a.name : a \in Alns(index)}
MultiNames(mate) == {a.name : a \in {x \in Range(multimappers) : x.mate = mate}}

\* aln is the summary of record r
Summarizes(aln, r) ==
    /\ aln.name = FragName(r)
    /\ aln.umi = get_umi(r, umi_length)
    /\ aln.reference = r.reference_name
    /\ aln.start = r.reference_start
    /\ aln.mapping_quality = r.mapping_quality
    /\ aln.score = get_score(r)
    /\ aln.mate = (IF r.is_read1 THEN 1 ELSE IF r.is_read2 THEN 2 ELSE -1)

\* r sits in index[reference][start]
AtItsPosition(index, r) ==
    /\ r.reference_name \in DOMAIN index
    /\ r.reference_start \in DOMAIN index[r.reference_name]
    /\ \E a \in Range(index[r.reference_name][r.reference_start]) : Summarizes(a, r)

InMultimappers(r) == \E a \in Range(multimappers) : Summarizes(a, r)

Indexed == pc \notin {"start", "first_mates"}

\* every record of the stream has a query name long enough for umi_length
WellFormed == \A i \in 1..Len(bam) : ~Malformed(bam[i])

----------------------------------------------------------------------------
\* C2 as stated: after pass 1 every mapped FIRST or UNPAIRED record is routed
\* (UNIQUE into r1_by_position[reference][start], MULTI into multimappers) and
\* its fragment name is in the pass-1 seen set.
\* Stated for streams of well-formed query names.
C2_FirstOrUnpairedRouted ==
    (pc = "first_mates" /\ WellFormed) =>
        \A r \in MappedRecords :
            (IsFirst(r) \/ IsUnpaired(r)) =>
                /\ IsUnique(r) => AtItsPosition(r1_reads_by_position, r)
                /\ ~IsUnique(r) => InMultimappers(r)
                /\ FragName(r) \in seen_1st

\* C2 amended: after pass 1 every mapped FIRST record is routed (UNIQUE into
\* r1_by_position[reference][start], MULTI into multimappers) with its name in
\* the seen set; UNPAIRED records are not routed: the index and the pool hold
\* FIRST records only, and the seen set holds the names of FIRST records only.
C2_FirstRoutedUnpairedSkipped ==
    pc = "first_mates" =>
        /\ \A r \in MappedFirst :
              /\ IsUnique(r) => AtItsPosition(r1_reads_by_position, r)
              /\ ~IsUnique(r) => InMultimappers(r)
              /\ FragName(r) \in seen_1st
        /\ \A a \in Alns(r1_reads_by_position) \cup Range(multimappers) :
              \E r \in MappedFirst : Summarizes(a, r)
        /\ seen_1st = FirstNames

C2_Witness ==
    /\ pc = "first_mates"
    /\ \E r \in MappedFirst : IsUnique(r) /\ AtItsPosition(r1_reads_by_position, r)
    /\ \E r \in MappedRecords : IsUnpaired(r) /\ FragName(r) \notin seen_1st

----------------------------------------------------------------------------
----------------------------------------------------------------------------
\* C4 as stated: r2_only_by_position holds every UNIQUE SECOND-mate read whose
\* first mate is absent, unmapped or multi-mapping, at [reference][start].
\* Stated for streams of well-formed query names.
C4_SecondOfMultiFirstIndexed ==
    (Indexed /\ WellFormed) =>
        \A r \in MappedSecond :
            (IsUnique(r) /\ ~\E f \in MappedFirst : FragName(f) = FragName(r) /\ IsUnique(f))
                => AtItsPosition(r2_only_reads_by_position, r)

\* C4 amended: r2_only_by_position holds every UNIQUE SECOND-mate read whose
\* first mate is absent from the stream or unmapped, at [reference][start]; a
\* SECOND-mate read whose first mate is mapped, UNIQUE or MULTI, is in neither
\* r2_only_by_position nor multimappers.
C4_SecondOfMissingFirstIndexed ==
    Indexed =>
        \A r \in MappedSecond :
            IF FragName(r) \in FirstNames
            THEN /\ FragName(r) \notin NamesIn(r2_only_reads_by_position)
                 /\ FragName(r) \notin MultiNames(2)
            ELSE IsUnique(r) => AtItsPosition(r2_only_reads_by_position, r)

C4_Witness ==
    /\ Indexed
    /\ \E r \in MappedSecond :
          /\ IsUnique(r)
          /\ AtItsPosition(r2_only_reads_by_position, r)
          /\ \E i \in 1..Len(bam) :
                bam[i].is_unmapped /\ IsFirst(bam[i]) /\ FragName(bam[i]) = FragName(r)

----------------------------------------------------------------------------
\* C8 as stated: the total of the DedupSummary is the number of UNIQUE first-
\* and second-mate reads that were indexed; MULTI reads do not contribute.
\* Stated for streams of well-formed query names.
C8_TotalCountsUniqueReads ==
    (pc \in {"summarized", "done"} /\ WellFormed) =>
        summary.total = Cardinality(Entries(r1_reads_by_position))
                        + Cardinality(Entries(r2_only_reads_by_position))

\* C8 amended: the total of the DedupSummary is the number of distinct fragment
\* names of the mapped FIRST-mate reads, UNIQUE or MULTI, plus the number of
\* distinct fragment names of the mapped SECOND-mate reads, UNIQUE or MULTI,
\* that no mapped FIRST-mate read has.
C8_TotalCountsSeenNames ==
    pc \in {"summarized", "done"} =>
        summary.total = Cardinality(FirstNames) + Cardinality(SecondNames \ FirstNames)

C8_Witness ==
    /\ pc = "summarized"
    /\ \E r \in MappedFirst : ~IsUnique(r)
    /\ summary.total > Cardinality(Entries(r1_reads_by_position))
                       + Cardinality(Entries(r2_only_reads_by_position))

----------------------------------------------------------------------------
\* C9: with total = 0, fraction_duplication() ends in an explicit empty-input
\* error and returns no number.
C9_EmptyInputError ==
    (pc = "done" /\ summary.total = 0) =>
        outcome.kind = "raised" /\ outcome.exception = "EmptyInputError"

----------------------------------------------------------------------------
\* C10: a mapped record whose query name is too short for umi_length makes the
\* run fail with an InputError: it gets no summary, so the run never gets past
\* the first pass and nothing with a truncated name is indexed.
C10_MalformedNameFails ==
    (\E r \in MappedRecords : Malformed(r)) =>
        /\ pc \in {"start", "InputError"}
        /\ <<>> \notin seen_1st \cup seen_2nd

----------------------------------------------------------------------------
\* mark_duplicates_by_umi on a position bucket of its own.

UmiA == Encode(<<"A", "A", "A", "A", "A", "A">>)
UmiB == Encode(<<"A", "A", "A", "A", "A", "T">>)
UmiC == Encode(<<"A", "A", "A", "A", "T", "T">>)
UmiSet == {UmiA, UmiB, UmiC}

BucketReads ==
    {r \in [name : {<<"f">>, <<"g">>, <<"h">>}, umi : UmiSet, score : {30, 45},
            mate : {1}, reference : {"chr1"}, start : {100}, mapping_quality : {30},
            type : {"SINGLE"}] :
        r.name = <<"h">> => r.score = 30}

InitBucket ==
    /\ pc = "bucket"
    /\ read_list \in UNION {[1..n -> BucketReads] : n \in 0..MaxBucket}
    /\ mismatches \in 0..MaxMismatches
    /\ seq_list = <<>>
    /\ clusters = <<>>
    /\ unique_reads = <<>>
    /\ dup_ids = <<>>
    /\ bam = <<>>
    /\ r1_reads_by_position = NoReads
    /\ r2_only_reads_by_position = NoReads
    /\ multimappers = <<>>
    /\ seen_1st = {}
    /\ seen_2nd = {}
    /\ total = 0
    /\ r1_dups = <<>>
    /\ r2_dups = <<>>
    /\ summary = NoSummary
    /\ outcome = NotCalled

\* mark_duplicates_by_umi(read_list, mismatches)
MarkDuplicatesByUmi ==
    /\ pc = "bucket"
    /\ seq_list' = Umis(read_list)
    /\ \E cl \in cluster_sequences(Umis(read_list), mismatches) :
          /\ clusters' = cl
          /\ unique_reads' = UniqueReads(read_list, cl)
          /\ dup_ids' = DuplicateNames(read_list, UniqueReads(read_list, cl))
    /\ pc' = "marked"
    /\ UNCHANGED <<read_list, mismatches>>
    /\ UNCHANGED indexVars

SpecBucket == InitBucket /\ [][MarkDuplicatesByUmi]_vars

----------------------------------------------------------------------------
\* cluster_sequences on a list of UMIs of its own.

InitCluster ==
    /\ pc = "seqs"
    /\ seq_list \in UNION {[1..n -> UmiSet] : n \in 0..MaxSeqs}
    /\ mismatches \in 0..MaxMismatches
    /\ read_list = <<>>
    /\ clusters = <<>>
    /\ unique_reads = <<>>
    /\ dup_ids = <<>>
    /\ bam = <<>>
    /\ r1_reads_by_position = NoReads
    /\ r2_only_reads_by_position = NoReads
    /\ multimappers = <<>>
    /\ seen_1st = {}
    /\ seen_2nd = {}
    /\ total = 0
    /\ r1_dups = <<>>
    /\ r2_dups = <<>>
    /\ summary = NoSummary
    /\ outcome = NotCalled

\* cluster_sequences(seq_list, mismatches)
ClusterSequences ==
    /\ pc = "seqs"
    /\ \E cl \in cluster_sequences(seq_list, mismatches) : clusters' = cl
    /\ pc' = "clustered"
    /\ UNCHANGED <<read_list, seq_list, mismatches, unique_reads, dup_ids>>
    /\ UNCHANGED indexVars

SpecCluster == InitCluster /\ [][ClusterSequences]_vars

----------------------------------------------------------------------------
\* Vocabulary of the properties of a bucket and of its clusters.

\* the reads of the bucket that satisfy Keep, in encounter order
ReadsWhere(Keep(_)) == SelectSeq(read_list, Keep)

\* the first read of highest score in a non-empty list
FirstMaximum(reads) ==
    reads[CHOOSE i \in 1..Len(reads) :
            /\ \A j \in 1..Len(reads) : reads[j].score <= reads[i].score
            /\ \A j \in 1..(i - 1) : reads[j].score < reads[i].score]

\* the index of the cluster that holds UMI u
ClusterIndex(u) == CHOOSE k \in 1..Len(clusters) : u \in Range(clusters[k])

\* occurrences of UMI u in the list that was clustered
Occurrences(u) == Cardinality({i \in 1..Len(seq_list) : seq_list[i] = u})

RECURSIVE TotalLen(_)
TotalLen(ss) == IF ss = <<>> THEN 0 ELSE Len(Head(ss)) + TotalLen(Tail(ss))

SurvivorNames == {unique_reads[k].name : k \in 1..Len(unique_reads)}

----------------------------------------------------------------------------
\* C1 as stated: for every cluster, the candidates are the reads whose UMI is
\* any member of the cluster, and with more than one candidate the survivor is
\* the first read of maximum score among them. Stated for the clusters whose
\* first UMI has the highest count outright, where the counts alone decide the
\* order of the members.
C1_SurvivorBestOfCluster ==
    pc = "marked" =>
        \A k \in 1..Len(clusters) :
            LET InCluster(r) == r.umi \in Range(clusters[k])
                subset == ReadsWhere(InCluster)
                outright == \A m \in 2..Len(clusters[k]) :
                               Occurrences(clusters[k][m]) < Occurrences(clusters[k][1])
            IN  (outright /\ Len(subset) > 1) => unique_reads[k] = FirstMaximum(subset)

\* C1 amended: for every cluster, the candidates are the reads whose UMI is the
\* first (representative) UMI of the cluster; with more than one candidate the
\* survivor is the first read of maximum score among them, with one it is that
\* read; a read whose UMI is another member of the cluster is never the
\* survivor, whatever its score.
C1_SurvivorBestOfRepresentative ==
    pc = "marked" =>
        \A k \in 1..Len(clusters) :
            LET HasRepresentative(r) == r.umi = clusters[k][1]
                subset == ReadsWhere(HasRepresentative)
            IN  /\ Len(subset) >= 1
                /\ unique_reads[k] = FirstMaximum(subset)
                /\ unique_reads[k].umi = clusters[k][1]

C1_Witness ==
    /\ pc = "marked"
    /\ \E k \in 1..Len(clusters) :
          /\ Len(clusters[k]) > 1
          /\ Cardinality({i \in 1..Len(read_list) : read_list[i].umi = clusters[k][1]}) > 1
          /\ \E i \in 1..Len(read_list) :
                /\ read_list[i].umi \in Range(clusters[k]) \ {clusters[k][1]}
                /\ read_list[i].score > unique_reads[k].score
                /\ read_list[i].name \in Range(dup_ids)

----------------------------------------------------------------------------
\* C5 as stated: for a bucket of more than one read there is one survivor per
\* cluster, every read that is not a survivor has its name in the returned
\* list, and n reads with k clusters give n - k duplicates.
C5_SurvivorPerCluster ==
    (pc = "marked" /\ Len(read_list) > 1) =>
        /\ Len(unique_reads) = Len(clusters)
        /\ \A i \in 1..Len(read_list) :
              read_list[i] \notin Range(unique_reads) => read_list[i].name \in Range(dup_ids)
        /\ Len(dup_ids) = Len(read_list) - Len(clusters)

\* C5 amended: for a bucket of more than one read there is one survivor per
\* cluster, and the returned list holds, in encounter order, the name of every
\* read whose fragment name is not the name of a survivor: a read that shares
\* its name with a survivor is not reported. n reads of pairwise distinct names
\* with k clusters give n - k duplicates.
C5_SurvivorPerClusterByName ==
    (pc = "marked" /\ Len(read_list) > 1) =>
        /\ Len(unique_reads) = Len(clusters)
        /\ \A k \in 1..Len(unique_reads) : unique_reads[k] \in Range(read_list)
        /\ \A i \in 1..Len(read_list) :
              read_list[i].name \notin SurvivorNames <=> read_list[i].name \in Range(dup_ids)
        /\ Len(dup_ids) =
              Cardinality({i \in 1..Len(read_list) : read_list[i].name \notin SurvivorNames})
        /\ (\A i, j \in 1..Len(read_list) : read_list[i].name = read_list[j].name => i = j)
              => Len(dup_ids) = Len(read_list) - Len(clusters)

C5_Witness ==
    /\ pc = "marked"
    /\ Len(read_list) = 3
    /\ Len(clusters) = 2
    /\ \A i, j \in 1..Len(read_list) : read_list[i].name = read_list[j].name => i = j
    /\ Len(dup_ids) = 1

----------------------------------------------------------------------------
\* C6: the clusters returned for a list of UMIs partition the set of distinct
\* UMIs of the list: every UMI of the list is in exactly one cluster, no
\* cluster holds a UMI that is not in the list, and the empty list gives no
\* cluster.
C6_ClusterCoverage ==
    pc = "clustered" =>
        /\ UNION {Range(clusters[k]) : k \in 1..Len(clusters)} = Range(seq_list)
        /\ TotalLen(clusters) = Cardinality(Range(seq_list))
        /\ \A k \in 1..Len(clusters) : clusters[k] # <<>>
        /\ seq_list = <<>> => clusters = <<>>

C6_Witness ==
    /\ pc = "clustered"
    /\ Len(clusters) >= 2
    /\ \E k \in 1..Len(clusters) : Len(clusters[k]) >= 2
    /\ Len(seq_list) > Cardinality(Range(seq_list))

----------------------------------------------------------------------------
\* C7 as stated: if hamming(a, b) <= t and count(a) >= 2 * count(b) - 1 for two
\* UMIs a and b, then b is in the cluster of a and is never a singleton.
C7_DirectionalDominance ==
    pc = "clustered" =>
        \A a, b \in Range(seq_list) :
            (a # b /\ Hamming(a, b) <= mismatches
                   /\ Occurrences(a) >= 2 * Occurrences(b) - 1) =>
                /\ ClusterIndex(b) = ClusterIndex(a)
                /\ Len(clusters[ClusterIndex(b)]) > 1

\* C7 amended: if hamming(a, b) <= t and count(a) >= 2 * count(b) - 1 for two
\* distinct UMIs a and b, then b is never a singleton cluster, and b is in the
\* cluster of a unless an earlier cluster, that of a UMI ahead of a in the
\* order of counts, has taken b already.
C7_DominatedNeverAlone ==
    pc = "clustered" =>
        \A a, b \in Range(seq_list) :
            (a # b /\ Hamming(a, b) <= mismatches
                   /\ Occurrences(a) >= 2 * Occurrences(b) - 1) =>
                /\ ClusterIndex(b) <= ClusterIndex(a)
                /\ Len(clusters[ClusterIndex(b)]) > 1

C7_Witness ==
    /\ pc = "clustered"
    /\ \E a, b \in Range(seq_list) :
          /\ a # b /\ Hamming(a, b) <= mismatches
          /\ Occurrences(a) >= 2 * Occurrences(b) - 1
          /\ ClusterIndex(b) < ClusterIndex(a)
          /\ Len(clusters[ClusterIndex(b)]) > 1

----------------------------------------------------------------------------
\* C11: for every stream, repeated names and mates included, the DedupSummary
\* has 0 <= total_dups <= total and total_dups <= r1_dups + r2_only_dups: every
\* reported duplicate name is in the seen set of its pass, the two seen sets
\* are disjoint, and the duplication fraction is at most 1.
C11_DuplicatesWithinTotal ==
    pc \in {"summarized", "done"} =>
        /\ 0 <= summary.total_dups
        /\ summary.total_dups <= summary.total
        /\ summary.total_dups <= summary.r1_dups + summary.r2_only_dups
        /\ Range(r1_dups) \subseteq seen_1st
        /\ Range(r2_dups) \subseteq seen_2nd
        /\ seen_1st \cap seen_2nd = {}
        /\ (pc = "done" /\ outcome.kind = "returned") =>
              /\ 0 <= outcome.num
              /\ outcome.num <= outcome.den

C11_Witness ==
    /\ pc = "done"
    /\ WellFormed
    /\ outcome.kind = "returned"
    /\ summary.total_dups = 1
    /\ summary.total = 2
    /\ Len(r1_dups) + Len(r2_dups) = 1

====
